---------------------------- MODULE Spec2Model ----------------------------
(***************************************************************************)
(* The two driver scripts of the repository,                               *)
(*   examples/ivp_ball_internally_heated_convection/internally_heated_conv.py *)
(*   examples/lbvp_2d_poisson/poisson.py                                   *)
(* as state machines.  The scripts themselves (what they define, the order *)
(* of their calls, their parameters) are translated from the source.  The  *)
(* framework they import (dedalus.core, dedalus.extras.flow_tools) is not  *)
(* among the source files; its operations are modelled from spec.md and    *)
(* are marked "spec-modelled" where they are defined.                      *)
(*                                                                         *)
(* Times and step sizes are exact rationals <<numerator, denominator>>.    *)
(***************************************************************************)
EXTENDS Integers, Sequences, FiniteSets, TLC

(***************************************************************************)
(* Bounds of the model.                                                    *)
(***************************************************************************)
\* Spectral indices 0..MaxMode are assembled (the scripts have 64 and 128).
MaxMode == 2
\* Loop iterations one run of the bounded specification Spec executes.
MaxSteps == 4

(***************************************************************************)
(* Exact rational arithmetic.                                              *)
(***************************************************************************)
RECURSIVE GCD(_, _)
GCD(a, b) == IF b = 0 THEN a ELSE GCD(b, a % b)

Rat(n, d) == LET g == GCD(n, d) IN <<n \div g, d \div g>>

RAdd(x, y) == Rat(x[1] * y[2] + y[1] * x[2], x[2] * y[2])

RMul(x, y) == Rat(x[1] * y[1], x[2] * y[2])

RDiv(x, y) == Rat(x[1] * y[2], x[2] * y[1])

RLess(x, y) == x[1] * y[2] < y[1] * x[2]

RLeq(x, y) == x[1] * y[2] <= y[1] * x[2]

RMin(x, y) == IF RLess(y, x) THEN y ELSE x

RAbsDiff(x, y) ==
    IF RLess(x, y)
    THEN Rat(y[1] * x[2] - x[1] * y[2], x[2] * y[2])
    ELSE Rat(x[1] * y[2] - y[1] * x[2], x[2] * y[2])

\* np.inf: larger than every rational.
Inf == <<1, 0>>

Zero == <<0, 1>>

(***************************************************************************)
(* Parameters of the convection script.                                    *)
(***************************************************************************)

\* t_end without the restart branch.
t_end_fresh_only(rst) == <<1001, 100>>

\* t_end = 10.01 on a fresh run, 20 on restart (lines 45-48).
t_end(rst) == IF rst THEN <<20, 1>> ELSE <<1001, 100>>


\* A fresh run started from a step size just above max_dt.
initial_dt_above == <<27, 500>>

\* dt = 0.05 on a fresh run (line 116).
initial_dt == <<1, 20>>

\* CFL(solver, dt, cadence=1, safety=0.35, threshold=0.1, max_dt=0.05).
cadence == 1

safety == <<7, 20>>

threshold == <<1, 10>>


\* max_dt mistyped as 0.5.
max_dt_typo == <<1, 2>>

max_dt == <<1, 20>>

hermitian_cadence == 100

\* The dimension of SphericalCoordinates('phi', 'theta', 'r').
dim == 3

(***************************************************************************)
(* State.                                                                  *)
(***************************************************************************)
VARIABLES
    prog,           \* which script runs: "convection" or "poisson"
    restart,        \* convection: sys.argv[1] == '--restart'
    conds,          \* the conditions of the two conditioned equations
    omitted,        \* id of an add_equation call left out (0: none)
    pc,             \* the statement the script is at
    line,           \* Poisson: position in PoissonScript
    asm_state,      \* "none", "assembling", "Built", "AssemblyError"
    asm_idx,        \* the spectral index assembled next
    asm_log,        \* per assembled index: what was routed and counted
    asm_error,      \* "none", "coverage", "count", "shape"
    n_assembly,     \* completed assemblies
    lbvp_state,     \* "none", "Built", "Factorized", "Solved"
    lbvp_hist,      \* the LBVP solver states entered, in order
    refused,        \* a solve() was called in a state that does not permit it
    n_write,        \* times the unknowns of the LBVP were written
    fields,         \* per field: which representation is authoritative
    fieldlog,       \* per field: the field calls of the last statement
    iteration,      \* solver.iteration
    sim_time,       \* solver.sim_time
    stop_sim_time,  \* solver.stop_sim_time
    dt,             \* the script's variable dt
    stored_dt,      \* the CFL controller's current step size
    freq,           \* max |u| / grid spacing of the current velocity field
    cache_key,      \* the implicit coefficient the cached factorization is for
    rebuilt,        \* the last step rebuilt the factorization
    hist,           \* what the last query and step saw and did
    n_query,        \* CFL queries of this run
    n_step,         \* steps of this run
    symwin          \* symmetrized at the iteration before last, last, current

inputs == <<prog, restart, conds, omitted>>

asmv == <<asm_state, asm_idx, asm_log, asm_error, n_assembly>>

lbvpv == <<lbvp_state, lbvp_hist, refused, n_write, line>>

fieldv == <<fields, fieldlog>>

ivpv == <<iteration, sim_time, stop_sim_time, dt, stored_dt, freq,
          cache_key, rebuilt, hist, n_query, n_step, symwin>>

vars == <<inputs, pc, asmv, lbvpv, fieldv, ivpv>>

(***************************************************************************)
(* Fields and operator expressions.  An expression is a tuple whose first  *)
(* entry names the operator; Comps is its number of tensor components.     *)
(***************************************************************************)
\* tensorsig=(c,) makes a vector field of dim components (convection: u,
\* tau u, r_vec); the other fields, and all of the Poisson script, are scalars.
FieldComps(name) ==
    IF prog = "convection" /\ name \in {"u", "tau_u", "r_vec"} THEN dim ELSE 1

F(name) == <<"field", name>>

RECURSIVE Comps(_)
Comps(e) ==
    CASE e[1] = "field" -> FieldComps(e[2])
      [] e[1] \in {"ddt", "lap", "trans", "interp", "LiftTau", "dy", "curl"} ->
            Comps(e[2])
      [] e[1] = "grad" -> dim * Comps(e[2])
      [] e[1] \in {"div", "rad"} -> Comps(e[2]) \div dim
      [] e[1] = "ang" -> (Comps(e[2]) \div dim) * (dim - 1)
      [] e[1] = "add" -> Comps(e[2])
      [] e[1] = "mul" -> Comps(e[2]) * Comps(e[3])

\* strain_rate = grad(u) + trans(grad(u))
strain_rate == <<"add", <<"grad", F("u")>>, <<"trans", <<"grad", F("u")>>>>>>


\* The shear stress without its angular projection.
shear_stress_no_ang == <<"rad", <<"interp", strain_rate>>>>

\* shear_stress = ang(rad(strain_rate(r=1)))
shear_stress == <<"ang", <<"rad", <<"interp", strain_rate>>>>>>

\* LiftTau = lambda A: operators.LiftTau(A, b, -1)
LiftTau(A) == <<"LiftTau", A, -1>>

\* lift = lambda A, n: d3.LiftTau(A, lift_basis, n)
lift(A, n) == <<"LiftTau", A, n>>


\* Both conditioned equations given the condition of the first.
ScriptCondsSame == <<"ntheta != 0", "ntheta != 0">>

\* The conditions the convection script gives its two conditioned
\* equations, no penetration and pressure gauge.
ScriptConds == <<"ntheta != 0", "ntheta == 0">>

\* problem = problems.IVP([u, p, T, tau_u, tau_T])
IVPVariables == <<"u", "p", "T", "tau_u", "tau_T">>

\* The seven add_equation calls of the convection script: the terms of the
\* left-hand side and the condition; c holds the conditions of the fourth
\* and fifth.
IVPEquations(c) ==
    << [id |-> 1, cond |-> "",
        lhs |-> << <<"ddt", F("u")>>, <<"lap", F("u")>>, <<"grad", F("p")>>,
                   LiftTau(F("tau_u")), <<"mul", F("r_vec"), F("T")>> >>],
       [id |-> 2, cond |-> "", lhs |-> << <<"div", F("u")>> >>],
       [id |-> 3, cond |-> "",
        lhs |-> << <<"ddt", F("T")>>, <<"lap", F("T")>>, LiftTau(F("tau_T")) >>],
       [id |-> 4, cond |-> c[1], lhs |-> << <<"rad", <<"interp", F("u")>>>> >>],
       [id |-> 5, cond |-> c[2], lhs |-> << <<"interp", F("p")>> >>],
       [id |-> 6, cond |-> "", lhs |-> << shear_stress >>],
       [id |-> 7, cond |-> "", lhs |-> << <<"interp", F("T")>> >>] >>

\* problem = d3.LBVP(variables=[u, tau1, tau2])
LBVPVariables == <<"u", "tau1", "tau2">>

\* The three add_equation calls of the Poisson script.
LBVPEquations ==
    << [id |-> 1, cond |-> "",
        lhs |-> << <<"lap", F("u")>>, lift(F("tau1"), -1), lift(F("tau2"), -2) >>],
       [id |-> 2, cond |-> "", lhs |-> << <<"interp", F("u")>> >>],
       [id |-> 3, cond |-> "", lhs |-> << <<"interp", <<"dy", F("u")>>>> >>] >>



\* The Poisson script with solve() called a second time.
PoissonScriptResolve == <<"forcing", "build", "solve", "solve", "plot">>

\* The calls of the Poisson script in order: the forcing (lines 47-52),
\* build_solver() (line 67), solve() (line 68), the plot (lines 71-79).
PoissonScript == <<"forcing", "build", "solve", "plot">>

\* The statement at position i of the Poisson script.
Stmt(i) == IF i <= Len(PoissonScript) THEN PoissonScript[i] ELSE "end"

(***************************************************************************)
(* Field (spec-modelled, spec.md 4.2): a field holds its data in grid or   *)
(* in coefficient representation; a require call for the other one         *)
(* transforms, a write makes the written one authoritative.                *)
(***************************************************************************)
AllFields == {"u", "p", "T", "tau_u", "tau_T", "tau1", "tau2", "f", "g", "h"}

NewField == [grid |-> FALSE, coeff |-> TRUE]


\* A grid write that leaves the coefficients authoritative.
set_grid_keep(fl) == [fl EXCEPT !.grid = TRUE]

set_grid(fl) == [grid |-> TRUE, coeff |-> FALSE]

set_coeff(fl) == [grid |-> FALSE, coeff |-> TRUE]

require_grid_space(fl) == IF fl.grid THEN fl ELSE [grid |-> TRUE, coeff |-> FALSE]

require_coeff_space(fl) == IF fl.coeff THEN fl ELSE [grid |-> FALSE, coeff |-> TRUE]

\* The transforms a field call performs.
Transforms(op, fl) ==
    CASE op = "require_grid" -> IF fl.grid THEN 0 ELSE 1
      [] op = "require_coeff" -> IF fl.coeff THEN 0 ELSE 1
      [] OTHER -> 0

FieldCall(op, fl) ==
    CASE op = "set_grid" -> set_grid(fl)
      [] op = "set_coeff" -> set_coeff(fl)
      [] op = "require_grid" -> require_grid_space(fl)
      [] op = "require_coeff" -> require_coeff_space(fl)

\* The calls ops made on field fl in order: the field after them and the
\* record of each call.
RECURSIVE FieldCalls(_, _, _)
FieldCalls(ops, fl, log) ==
    IF ops = <<>>
    THEN [fl |-> fl, log |-> log]
    ELSE LET op == Head(ops)
             r == FieldCall(op, fl)
         IN FieldCalls(Tail(ops), r,
                Append(log, [op |-> op, pre |-> fl, post |-> r,
                             n |-> Transforms(op, fl)]))

\* calls maps each field to the calls made on it (<<>>: untouched).
FieldsAfter(calls) ==
    [x \in AllFields |-> FieldCalls(calls[x], fields[x], <<>>).fl]

LogAfter(calls) ==
    [x \in AllFields |-> FieldCalls(calls[x], fields[x], <<>>).log]

NoCalls == [x \in AllFields |-> <<>>]

(***************************************************************************)
(* Problem assembly (spec-modelled, spec.md 4.3 and 4.4): per spectral     *)
(* index, the equations whose condition holds there are routed; the        *)
(* conditioned equations must claim the index exactly once and the         *)
(* equations must count as many components as the unknowns.                *)
(***************************************************************************)
CondHolds(c, ntheta) ==
    CASE c = "" -> TRUE
      [] c = "ntheta != 0" -> ntheta # 0
      [] c = "ntheta == 0" -> ntheta = 0
      [] c = "ntheta == 1" -> ntheta = 1

Variables == IF prog = "convection" THEN IVPVariables ELSE LBVPVariables

Equations ==
    LET all == IF prog = "convection" THEN IVPEquations(conds) ELSE LBVPEquations
        Kept(e) == e.id # omitted
    IN SelectSeq(all, Kept)

RECURSIVE SumComps(_)
SumComps(eqs) ==
    IF eqs = <<>> THEN 0 ELSE Comps(Head(eqs).lhs[1]) + SumComps(Tail(eqs))

RECURSIVE SumFieldComps(_)
SumFieldComps(names) ==
    IF names = <<>> THEN 0 ELSE FieldComps(Head(names)) + SumFieldComps(Tail(names))

WellShaped(e) == \A i \in 1..Len(e.lhs) : Comps(e.lhs[i]) = Comps(e.lhs[1])

\* The tau terms of an equation: <<tau field, mode index it is lifted to>>.
Lifts(e) ==
    {<<e.lhs[i][2][2], e.lhs[i][3]>> : i \in {j \in 1..Len(e.lhs) : e.lhs[j][1] = "LiftTau"}}

Routed(idx) ==
    LET Matches(e) == CondHolds(e.cond, idx)
    IN SelectSeq(Equations, Matches)

\* What assembling index idx finds.
AssembleIndex(idx) ==
    LET routed == Routed(idx)
        Conditioned(e) == e.cond # ""
    IN [idx |-> idx,
        routed |-> [i \in 1..Len(routed) |-> routed[i].id],
        comps |-> [i \in 1..Len(routed) |-> Comps(routed[i].lhs[1])],
        claims |-> Len(SelectSeq(routed, Conditioned)),
        conditioned |-> Len(SelectSeq(Equations, Conditioned)),
        unknowns |-> [i \in 1..Len(Variables) |-> FieldComps(Variables[i])],
        eq_comps |-> SumComps(routed),
        unk_comps |-> SumFieldComps(Variables),
        shaped |-> \A i \in 1..Len(routed) : WellShaped(routed[i]),
        lifts |-> UNION {Lifts(routed[i]) : i \in 1..Len(routed)}]

\* The AssemblyError, if any, of what was found at an index.
AssemblyCheck(r) ==
    CASE ~r.shaped -> "shape"
      [] r.conditioned > 0 /\ r.claims # 1 -> "coverage"
      [] r.eq_comps # r.unk_comps -> "count"
      [] OTHER -> "none"

\* One index of the assembly that building a solver performs
\* (solvers.InitialValueSolver(problem, ts), problem.build_solver()).
Assemble ==
    /\ pc = "build"
    /\ asm_state \in {"none", "assembling", "Built"}
    /\ LET idx == IF asm_state = "assembling" THEN asm_idx ELSE 0
           r == AssembleIndex(idx)
           err == AssemblyCheck(r)
       IN /\ asm_log' = IF idx = 0 THEN <<r>> ELSE Append(asm_log, r)
          /\ asm_error' = err
          /\ IF err # "none"
             THEN /\ asm_state' = "AssemblyError"
                  /\ pc' = "error"
                  /\ asm_idx' = idx
                  /\ UNCHANGED <<n_assembly, lbvp_state, lbvp_hist, line,
                                 stop_sim_time>>
             ELSE IF idx < MaxMode
             THEN /\ asm_state' = "assembling"
                  /\ asm_idx' = idx + 1
                  /\ UNCHANGED <<pc, n_assembly, lbvp_state, lbvp_hist, line,
                                 stop_sim_time>>
             ELSE /\ asm_state' = "Built"
                  /\ n_assembly' = n_assembly + 1
                  /\ asm_idx' = idx
                  /\ IF prog = "convection"
                     THEN \* solver.stop_sim_time = t_end (line 107)
                          /\ stop_sim_time' = t_end(restart)
                          /\ pc' = "ic"
                          /\ UNCHANGED <<lbvp_state, lbvp_hist, line>>
                     ELSE /\ lbvp_state' = "Built"
                          /\ lbvp_hist' = Append(lbvp_hist, "Built")
                          /\ line' = line + 1
                          /\ pc' = Stmt(line + 1)
                          /\ UNCHANGED stop_sim_time
    /\ UNCHANGED <<inputs, refused, n_write, fieldv, iteration, sim_time, dt,
                   stored_dt, freq, cache_key, rebuilt, hist, n_query, n_step,
                   symwin>>

(***************************************************************************)
(* The Poisson script.                                                     *)
(***************************************************************************)
\* f['g'] = ..., g['g'] = ..., h['g'] = 0 (lines 50-52).
Forcing ==
    /\ pc = "forcing"
    /\ LET calls == [x \in AllFields |->
                        IF x \in {"f", "g", "h"} THEN <<"set_grid">> ELSE <<>>]
       IN /\ fields' = FieldsAfter(calls)
          /\ fieldlog' = LogAfter(calls)
    /\ line' = line + 1
    /\ pc' = Stmt(line + 1)
    /\ UNCHANGED <<inputs, asmv, lbvp_state, lbvp_hist, refused, n_write, ivpv>>

\* Whether the LBVP solver permits solve() (spec-modelled, spec.md 4.5:
\* terminal after one solve, solve() works on an assembled solver).
SolvePermitted == lbvp_state = "Built"

\* solver.solve(), first half (spec-modelled): the per-mode matrices are
\* factorized.  A call that is not permitted is refused.
SolveFactorize ==
    /\ pc = "solve"
    /\ IF SolvePermitted
       THEN /\ lbvp_state' = "Factorized"
            /\ lbvp_hist' = Append(lbvp_hist, "Factorized")
            /\ pc' = "solving"
            /\ UNCHANGED <<refused, line>>
       ELSE /\ refused' = TRUE
            /\ line' = line + 1
            /\ pc' = Stmt(line + 1)
            /\ UNCHANGED <<lbvp_state, lbvp_hist>>
    /\ UNCHANGED <<inputs, asmv, n_write, fieldv, ivpv>>

\* solver.solve(), second half (spec-modelled): L x = RHS is solved per
\* mode from the coefficients of the right-hand sides and the result is
\* written to the coefficients of the unknowns.
SolveWrite ==
    /\ pc = "solving"
    /\ LET calls == [x \in AllFields |->
                        IF x \in {"f", "g", "h"} THEN <<"require_coeff">>
                        ELSE IF x \in {"u", "tau1", "tau2"} THEN <<"set_coeff">>
                        ELSE <<>>]
       IN /\ fields' = FieldsAfter(calls)
          /\ fieldlog' = LogAfter(calls)
    /\ lbvp_state' = "Solved"
    /\ lbvp_hist' = Append(lbvp_hist, "Solved")
    /\ n_write' = n_write + 1
    /\ line' = line + 1
    /\ pc' = Stmt(line + 1)
    /\ UNCHANGED <<inputs, asmv, refused, ivpv>>

\* ug = u.allgather_data('g') and the figure (lines 71-79).
Plot ==
    /\ pc = "plot"
    /\ LET calls == [x \in AllFields |->
                        IF x = "u" THEN <<"require_grid">> ELSE <<>>]
       IN /\ fields' = FieldsAfter(calls)
          /\ fieldlog' = LogAfter(calls)
    /\ line' = line + 1
    /\ pc' = Stmt(line + 1)
    /\ UNCHANGED <<inputs, asmv, lbvp_state, lbvp_hist, refused, n_write, ivpv>>

(***************************************************************************)
(* The convection script.                                                  *)
(***************************************************************************)
\* The fields of solver.state.
StateFields == {"u", "p", "T", "tau_u", "tau_T"}

\* The fields the explicit right-hand sides are evaluated from:
\* - cross(curl(u),u) and - dot(u,grad(T)) (lines 96 and 98).
RHSFields == {"u", "T"}

\* Values of max |u| / grid spacing the velocity field takes in Spec: at
\* rest, and Courant bounds 0.35/freq of 0.048, 0.045 and 0.035.
Freqs == {Zero, <<175, 24>>, <<70, 9>>, <<10, 1>>}

\* The values it takes in the runs to stop_sim_time of SpecRun, where the
\* flow speeds up from rest and does not come to rest again.
RunFreqs == {Zero, <<10, 1>>}

SpeedUp(fr) == {x \in RunFreqs : RLeq(fr, x)}

\* What 'checkpoints/checkpoints_s11.h5' can hold: the state of a fresh run
\* at the first step from sim_time >= 10 (checkpoints: sim_dt = 1,
\* max_writes = 1), after 200 steps of 0.05, or 198 of 0.05 and 3 of 0.035.
Checkpoints ==
    { [iteration |-> 200, sim_time |-> <<10, 1>>, dt |-> <<1, 20>>,
       freq |-> <<10, 1>>],
      [iteration |-> 201, sim_time |-> <<2001, 200>>, dt |-> <<7, 200>>,
       freq |-> <<10, 1>>] }

NoHist ==
    [dt_in_use |-> Zero, qfreq |-> Zero, query_dt |-> Zero, step_dt |-> Zero,
     prev_step_dt |-> Zero, time_before |-> Zero, iter_before |-> 0]

\* The initial condition of a fresh run (lines 110-116): T['g'] = 1-r**2,
\* T['g'] += 0.5*rand, dt = 0.05; u is left at zero.
InitialCondition ==
    /\ pc = "ic"
    /\ ~restart
    /\ LET calls == [x \in AllFields |->
                        IF x = "T" THEN <<"set_grid", "require_grid", "set_grid">>
                        ELSE <<>>]
       IN /\ fields' = FieldsAfter(calls)
          /\ fieldlog' = LogAfter(calls)
    /\ dt' = initial_dt
    /\ pc' = "cfl_setup"
    /\ UNCHANGED <<inputs, asmv, lbvpv, iteration, sim_time, stop_sim_time,
                   stored_dt, freq, cache_key, rebuilt, hist, n_query, n_step,
                   symwin>>

\* write, dt = solver.load_state('checkpoints/checkpoints_s11.h5') (line
\* 118; load_state spec-modelled, spec.md 6: the coefficients of the state
\* fields, the iteration and the simulation time are restored).
LoadState ==
    /\ pc = "ic"
    /\ restart
    /\ \E ck \in Checkpoints :
          /\ iteration' = ck.iteration
          /\ sim_time' = ck.sim_time
          /\ dt' = ck.dt
          /\ freq' = ck.freq
    /\ LET calls == [x \in AllFields |->
                        IF x \in StateFields THEN <<"set_coeff">> ELSE <<>>]
       IN /\ fields' = FieldsAfter(calls)
          /\ fieldlog' = LogAfter(calls)
    /\ pc' = "cfl_setup"
    /\ UNCHANGED <<inputs, asmv, lbvpv, stop_sim_time, stored_dt, cache_key,
                   rebuilt, hist, n_query, n_step, symwin>>

\* CFL = flow_tools.CFL(solver, dt, ...) (lines 136-137): the controller
\* starts from the script's dt.
SetupCFL ==
    /\ pc = "cfl_setup"
    /\ stored_dt' = dt
    /\ pc' = "while"
    /\ UNCHANGED <<inputs, asmv, lbvpv, fieldv, iteration, sim_time,
                   stop_sim_time, dt, freq, cache_key, rebuilt, hist, n_query,
                   n_step, symwin>>

\* solver.proceed (spec-modelled, spec.md 4.5: sim_time >= stop_sim_time
\* stops; no iteration or wall-clock limit is set by the script).
proceed == RLess(sim_time, stop_sim_time)

\* while solver.proceed: (line 143), the loop is entered.
Proceed ==
    /\ pc = "while"
    /\ proceed
    /\ pc' = "cfl"
    /\ UNCHANGED <<inputs, asmv, lbvpv, fieldv, ivpv>>

\* while solver.proceed: (line 143), the loop is left.
Exit ==
    /\ pc = "while"
    /\ ~proceed
    /\ pc' = "done"
    /\ UNCHANGED <<inputs, asmv, lbvpv, fieldv, ivpv>>

\* The Courant bound safety * min(grid_spacing / |velocity|)
\* (spec-modelled, spec.md 4.5); a velocity at rest bounds nothing.
CourantBound(fr) == IF fr[1] = 0 THEN Inf ELSE RDiv(safety, fr)

\* CFL.compute_timestep() (spec-modelled, spec.md 4.5 and 7): the bound
\* capped by max_dt; a change smaller than threshold times the step size in
\* use is ignored.
compute_timestep(fr, cur, it) ==
    LET capped == RMin(CourantBound(fr), max_dt)
    IN IF it % cadence # 0 THEN cur
       ELSE IF RLess(RAbsDiff(capped, cur), RMul(threshold, cur)) THEN cur
       ELSE capped

\* dt = CFL.compute_timestep() (line 144); the controller inspects the grid
\* data of the velocity.
ComputeTimestep ==
    /\ pc = "cfl"
    /\ LET new == compute_timestep(freq, stored_dt, iteration)
       IN /\ stored_dt' = new
          /\ dt' = new
          /\ hist' = [hist EXCEPT !.dt_in_use = stored_dt, !.qfreq = freq,
                                  !.query_dt = new]
    /\ LET calls == [x \in AllFields |->
                        IF x = "u" THEN <<"require_grid">> ELSE <<>>]
       IN /\ fields' = FieldsAfter(calls)
          /\ fieldlog' = LogAfter(calls)
    /\ n_query' = n_query + 1
    /\ pc' = "step"
    /\ UNCHANGED <<inputs, asmv, lbvpv, iteration, sim_time, stop_sim_time,
                   freq, cache_key, rebuilt, n_step, symwin>>

\* The backward-difference coefficient of SBDF2 (ts = timesteppers.SBDF2).
a0 == <<3, 2>>

\* The coefficient a0/dt of the implicit matrix a0/dt * M + L
\* (spec-modelled, spec.md 4.5).
LHSKey(d) == RDiv(a0, d)


\* A cache that is filled once and never invalidated.
update_LHS_once(key, d) == key = Zero

\* Whether a step of size d needs a new factorization (spec-modelled,
\* spec.md 4.5 and 9: the cache is keyed by the implicit coefficient).
update_LHS(key, d) == key # LHSKey(d)


\* The step taken with the script's first dt instead of the query's result.
StepArgStale == initial_dt

\* The argument of solver.step(dt) (line 145).
StepArg == dt

\* solver.step(dt) (line 145; the step spec-modelled, spec.md 4.5): the
\* right-hand sides are evaluated from grid data, the implicit system is
\* solved with the factorization for a0/dt, the new coefficients are
\* written, iteration and sim_time advance.  The new velocity is any of FR.
SolverStep(FR) ==
    /\ pc = "step"
    /\ LET arg == StepArg
       IN /\ rebuilt' = update_LHS(cache_key, arg)
          /\ cache_key' = IF update_LHS(cache_key, arg) THEN LHSKey(arg)
                          ELSE cache_key
          /\ sim_time' = RAdd(sim_time, arg)
          /\ hist' = [hist EXCEPT !.step_dt = arg,
                                  !.prev_step_dt = hist.step_dt,
                                  !.time_before = sim_time,
                                  !.iter_before = iteration,
                                  !.dt_in_use = Zero, !.qfreq = Zero]
    /\ iteration' = iteration + 1
    /\ LET calls == [x \in AllFields |->
                        IF x \in RHSFields
                        THEN <<"require_grid", "require_coeff", "set_coeff">>
                        ELSE IF x \in StateFields
                        THEN <<"require_coeff", "set_coeff">>
                        ELSE <<>>]
       IN /\ fields' = FieldsAfter(calls)
          /\ fieldlog' = LogAfter(calls)
    /\ \E fr \in FR : freq' = fr
    /\ n_step' = n_step + 1
    /\ pc' = "herm"
    /\ UNCHANGED <<inputs, asmv, lbvpv, stop_sim_time, dt, stored_dt, n_query,
                   symwin>>

\* if solver.iteration % hermitian_cadence in [0, 1]: (line 149)
ImposeHermitian(it) == it % hermitian_cadence \in {0, 1}

\* The rest of the loop body (lines 146-151): the log line, and
\* require_grid_space() on every state field when the cadence says so.
Hermitian ==
    /\ pc = "herm"
    /\ LET calls == [x \in AllFields |->
                        IF x \in StateFields /\ ImposeHermitian(iteration)
                        THEN <<"require_grid">> ELSE <<>>]
       IN /\ fields' = FieldsAfter(calls)
          /\ fieldlog' = LogAfter(calls)
    /\ symwin' = <<symwin[2], symwin[3], ImposeHermitian(iteration)>>
    /\ hist' = [NoHist EXCEPT !.step_dt = hist.step_dt]
    /\ pc' = "while"
    /\ UNCHANGED <<inputs, asmv, lbvpv, iteration, sim_time, stop_sim_time, dt,
                   stored_dt, freq, cache_key, rebuilt, n_query, n_step>>

(***************************************************************************)
(* Specifications.                                                         *)
(***************************************************************************)
\* The conditions assembly is tried with.
Conds == {"ntheta != 0", "ntheta == 0", "ntheta == 1"}

Init ==
    /\ prog \in {"convection", "poisson"}
    /\ restart \in IF prog = "convection" THEN BOOLEAN ELSE {FALSE}
    /\ conds \in IF prog = "convection" THEN Conds \X Conds ELSE {<<"", "">>}
    /\ omitted \in IF prog = "convection" THEN 0..7 ELSE 0..3
    /\ pc = IF prog = "convection" THEN "build" ELSE Stmt(1)
    /\ line = IF prog = "convection" THEN 0 ELSE 1
    /\ asm_state = "none"
    /\ asm_idx = 0
    /\ asm_log = <<>>
    /\ asm_error = "none"
    /\ n_assembly = 0
    /\ lbvp_state = "none"
    /\ lbvp_hist = <<>>
    /\ refused = FALSE
    /\ n_write = 0
    /\ fields = [x \in AllFields |-> NewField]
    /\ fieldlog = NoCalls
    /\ iteration = 0
    /\ sim_time = Zero
    /\ stop_sim_time = Inf
    /\ dt = Zero
    /\ stored_dt = Zero
    /\ freq = Zero
    /\ cache_key = Zero
    /\ rebuilt = FALSE
    /\ hist = NoHist
    /\ n_query = 0
    /\ n_step = 0
    /\ symwin = <<FALSE, FALSE, FALSE>>

Next ==
    \/ Assemble
    \/ Forcing
    \/ SolveFactorize
    \/ SolveWrite
    \/ Plot
    \/ InitialCondition
    \/ LoadState
    \/ SetupCFL
    \/ (n_step < MaxSteps /\ Proceed)
    \/ ComputeTimestep
    \/ SolverStep(Freqs)
    \/ Hermitian

Spec == Init /\ [][Next]_vars

\* The convection script as written, run until the loop is left; the
\* script runs its statements one after the other without waiting.
InitRun == Init /\ prog = "convection" /\ conds = ScriptConds /\ omitted = 0

NextRun ==
    \/ Assemble
    \/ InitialCondition
    \/ LoadState
    \/ SetupCFL
    \/ Proceed
    \/ Exit
    \/ ComputeTimestep
    \/ SolverStep(SpeedUp(freq))
    \/ Hermitian

SpecRun == InitRun /\ [][NextRun]_vars /\ WF_vars(NextRun)

(***************************************************************************)
(* The claims.                                                             *)
(***************************************************************************)
\* The values the claims name.
ClaimedMaxDt == <<1, 20>>

ClaimedThreshold == <<1, 10>>

ClaimedStop == IF restart THEN <<20, 1>> ELSE <<1001, 100>>

\* The Courant bound of the velocity the last query saw.
QueriedBound == IF hist.qfreq[1] = 0 THEN Inf ELSE RDiv(safety, hist.qfreq)

\* C1: the dt passed to solver.step is at most max_dt (0.05), and at most
\* the Courant bound of the velocity the query saw, unless the step size in
\* use was kept because the bound differs from it by less than the
\* threshold fraction (0.1) of it.
C1_CFLBoundRespected ==
    pc = "step" =>
        /\ RLeq(StepArg, ClaimedMaxDt)
        /\ \/ RLeq(StepArg, QueriedBound)
           \/ /\ StepArg = hist.dt_in_use
              /\ RLess(RAbsDiff(QueriedBound, hist.dt_in_use),
                       RMul(ClaimedThreshold, hist.dt_in_use))

\* A step is about to be taken with a dt above the Courant bound, kept by
\* the hysteresis.
C1_Witness ==
    /\ pc = "step"
    /\ RLess(QueriedBound, StepArg)
    /\ n_step >= 1

\* The conditioned equations (ids 4 and 5) that claim spectral index idx.
Claimers(idx) ==
    {k \in {4, 5} : k # omitted /\ CondHolds(conds[k - 3], idx)}

\* C2: with the script's conditions assembly does not fail and routes, at
\* every spectral index, exactly one of the two conditioned equations: the
\* pressure gauge (5) at ntheta = 0, no penetration (4) elsewhere.  With any
\* conditions, an index claimed by none or by both ends assembly in
\* AssemblyError, and an assembly that ends Built has every index claimed
\* exactly once.
C2_ModeCoverage ==
    prog = "convection" =>
        /\ (conds = ScriptConds /\ omitted = 0) =>
              /\ asm_state # "AssemblyError"
              /\ \A i \in 1..Len(asm_log) :
                    LET r == asm_log[i]
                        cl == {k \in 1..Len(r.routed) : r.routed[k] \in {4, 5}}
                    IN /\ Cardinality(cl) = 1
                       /\ \A k \in cl :
                             r.routed[k] = IF r.idx = 0 THEN 5 ELSE 4
        /\ \A i \in 1..Len(asm_log) :
              Cardinality(Claimers(asm_log[i].idx)) # 1 =>
                  asm_state = "AssemblyError"
        /\ asm_state = "Built" =>
              /\ Len(asm_log) = MaxMode + 1
              /\ \A idx \in 0..MaxMode : Cardinality(Claimers(idx)) = 1

\* The script's problem is assembled, the gauge routed at index 0 and no
\* penetration at index 1.
C2_Witness ==
    /\ prog = "convection" /\ conds = ScriptConds /\ omitted = 0
    /\ asm_state = "Built"
    /\ 5 \in {asm_log[1].routed[k] : k \in 1..Len(asm_log[1].routed)}
    /\ 4 \in {asm_log[2].routed[k] : k \in 1..Len(asm_log[2].routed)}

\* C3: at every spectral index the routed equations count as many
\* components as the unknowns: 3 against 3 in the Poisson script (the two
\* taus lifted to the mode indices -1 and -2), 3+1+1+3+1 = 9 against
\* 3+1+1+1+2+1 = 9 in the convection script, at ntheta == 0 and elsewhere.
\* A count that differs ends assembly in AssemblyError.
C3_SquareSystems ==
    /\ (prog = "poisson" /\ omitted = 0) =>
          /\ asm_state # "AssemblyError"
          /\ \A i \in 1..Len(asm_log) :
                /\ asm_log[i].unknowns = <<1, 1, 1>>
                /\ asm_log[i].routed = <<1, 2, 3>>
                /\ asm_log[i].comps = <<1, 1, 1>>
                /\ asm_log[i].eq_comps = 3 /\ asm_log[i].unk_comps = 3
                /\ asm_log[i].lifts = {<<"tau1", -1>>, <<"tau2", -2>>}
    /\ (prog = "convection" /\ conds = ScriptConds /\ omitted = 0) =>
          /\ asm_state # "AssemblyError"
          /\ \A i \in 1..Len(asm_log) :
                /\ asm_log[i].unknowns = <<3, 1, 1, 3, 1>>
                /\ asm_log[i].routed = IF asm_log[i].idx = 0
                                       THEN <<1, 2, 3, 5, 6, 7>>
                                       ELSE <<1, 2, 3, 4, 6, 7>>
                /\ asm_log[i].comps = <<3, 1, 1, 1, 2, 1>>
                /\ asm_log[i].eq_comps = 9 /\ asm_log[i].unk_comps = 9
    /\ \A i \in 1..Len(asm_log) :
          asm_log[i].eq_comps # asm_log[i].unk_comps =>
              asm_state = "AssemblyError"
    /\ asm_state = "Built" =>
          /\ Len(asm_log) = MaxMode + 1
          /\ \A i \in 1..Len(asm_log) :
                asm_log[i].eq_comps = asm_log[i].unk_comps

\* The convection problem of the script is assembled at every index, nine
\* components against nine.
C3_Witness ==
    /\ prog = "convection" /\ conds = ScriptConds /\ omitted = 0
    /\ asm_state = "Built"
    /\ Len(asm_log) = MaxMode + 1
    /\ \A i \in 1..Len(asm_log) : asm_log[i].eq_comps = 9

\* C4: an iteration at which the state fields are symmetrized has a
\* neighbour, the iteration before or the one after, at which they are
\* symmetrized too.  (Stated of the iteration before the last completed
\* one; an iteration before the run's first counts as not symmetrized.)
C4_HermitianPaired ==
    (pc = "while" /\ n_step >= 2) => (symwin[2] => (symwin[1] \/ symwin[3]))

\* C5: each loop iteration queries the CFL controller once, before the
\* step; the step gets the dt the query returned, advances the iteration
\* by 1 and sim_time by that dt.
C5_QueryThenStep ==
    /\ n_query = IF pc = "step" THEN n_step + 1 ELSE n_step
    /\ pc = "herm" =>
          /\ hist.step_dt = hist.query_dt
          /\ iteration = hist.iter_before + 1
          /\ sim_time = RAdd(hist.time_before, hist.query_dt)

\* A step was taken with a dt the controller had changed.
C5_Witness ==
    /\ pc = "herm"
    /\ n_step >= 2
    /\ hist.query_dt # hist.prev_step_dt
    /\ hist.step_dt = hist.query_dt

\* C6: after a step the cached factorization is the one for a0/dt of that
\* step; it was rebuilt at that step exactly when the step is the first of
\* the run (nothing cached yet) or its dt differs from the dt of the step
\* before.
C6_FactorizationCache ==
    pc = "herm" =>
        /\ cache_key = RDiv(a0, hist.step_dt)
        /\ rebuilt <=> (n_step = 1 \/ hist.step_dt # hist.prev_step_dt)

\* One step reused the factorization and a later one, with another dt,
\* rebuilt it.
C6_Witness ==
    /\ pc = "herm"
    /\ n_step >= 3
    /\ rebuilt
    /\ hist.step_dt # hist.prev_step_dt

IsPrefix(s, t) == Len(s) <= Len(t) /\ \A i \in 1..Len(s) : s[i] = t[i]

C9_OneRepresentation ==
    \A x \in AllFields :
        /\ ~(fields[x].grid /\ fields[x].coeff)
        /\ \A i \in 1..Len(fieldlog[x]) :
              LET e == fieldlog[x][i]
              IN /\ ~(e.post.grid /\ e.post.coeff)
                 /\ e.op = "require_grid" =>
                       IF e.pre.grid THEN e.n = 0 /\ e.post = e.pre
                       ELSE e.n = 1 /\ e.post.grid /\ ~e.post.coeff
                 /\ e.op = "require_coeff" =>
                       IF e.pre.coeff THEN e.n = 0 /\ e.post = e.pre
                       ELSE e.n = 1 /\ e.post.coeff /\ ~e.post.grid
                 /\ e.op = "set_grid" => e.n = 0 /\ e.post.grid /\ ~e.post.coeff
                 /\ e.op = "set_coeff" => e.n = 0 /\ e.post.coeff /\ ~e.post.grid

\* In one statement a field was required in the representation it had (no
\* transform) and then in the other one (one transform), and another field
\* was written in grid space.
C9_Witness ==
    /\ \E x \in AllFields : \E i, j \in 1..Len(fieldlog[x]) :
          /\ fieldlog[x][i].op = "require_grid" /\ fieldlog[x][i].n = 0
          /\ fieldlog[x][j].op = "require_coeff" /\ fieldlog[x][j].n = 1
    /\ n_step >= 2

\* C10: every pass through the loop body starts from the loop test with
\* solver.proceed true, no query and no step happens at sim_time >=
\* stop_sim_time (10.01 fresh, 20 on restart), the loop is eventually left,
\* and it is left with stop_sim_time <= sim_time < stop_sim_time + max_dt.
C10_Terminates ==
    /\ [][pc' = "cfl" => (pc = "while" /\ proceed)]_vars
    /\ [](pc \in {"cfl", "step"} => RLess(sim_time, ClaimedStop))
    /\ <>(pc = "done")
    /\ [](pc = "done" =>
            /\ RLeq(ClaimedStop, sim_time)
            /\ RLess(sim_time, RAdd(ClaimedStop, ClaimedMaxDt)))

\* A restarted run has left the loop, past 20 and not on it.
C10_Witness ==
    /\ pc = "done"
    /\ restart
    /\ RLess(ClaimedStop, sim_time)

=============================================================================
